---- MODULE Spec2Model ----
(***************************************************************************)
(* 2-opt local search for the Euclidean TSP and its k-d tree index.        *)
(*                                                                         *)
(* Numbers.  Coordinates are integers counted in units of 1/UnitsPerOne    *)
(* (so the unit square is 0..UnitsPerOne in each axis).  A double holding  *)
(* a distance, a gain, a tour length or a radius is a fixed-point integer  *)
(* counted in 1/SCALE of a coordinate unit; std::sqrt rounds to that grid  *)
(* (downwards).  Squared distances are exact integers in squared           *)
(* coordinate units.  Indices are the code's 0-based indices; At reads a   *)
(* 1-based TLA+ sequence at a 0-based index.                               *)
(***************************************************************************)
EXTENDS Integers, Sequences, FiniteSets, TLC

\* Largest tour handed to an optimizer or to a tour utility.
MaxN == 5
\* Fixed-point resolution of a double: units per coordinate unit.
SCALE == 1000
\* Coordinate units per 1.0 of the code's coordinate domain.
UnitsPerOne == 10

\* Longest vector handed to is_valid_tour directly, and the largest id in it.
MaxValidLen == 3
MaxValidId == 2

\* Most points handed to KDTree::build in a direct use of the tree.
MaxPts == 3
\* Points and queries of a direct use of the tree lie on the grid 0..MaxCoord.
MaxCoord == 2
\* Largest k asked of find_k_nearest_neighbors: one more than there are points.
MaxK == MaxPts + 1
\* Most points of a vector built into a tree with nodes two levels below the root.
MaxBuildPts == 5
\* Longest run, in passes, that is compared with the run recomputed from its input.
MaxRunPasses == 10
\* Largest tour size for which the pairs that basic_2opt enumerates are listed.
MaxScanN == 8
\* Query radii are 0, 1/2, 1, ... MaxHalfRadius/2 coordinate units.
MaxHalfRadius == 5

VARIABLES
    \* ---- an optimizer call (two_opt.h)
    alg,            \* which optimizer runs
    pc,             \* "call" | "loop" | "done"
    tour,           \* std::vector<Point>& tour
    input,          \* the tour as it was passed in
    stats,          \* OptimizationStats
    improved,       \* bool improved
    \* ---- KDTree object (kd_tree.h)
    root,           \* std::unique_ptr<KDNode> root
    size_,          \* size_t size_
    nodes_visited,  \* mutable size_t nodes_visited
    \* ---- a direct call of a tour utility or of a KDTree query
    fn,             \* the function called last
    args,           \* its arguments
    result          \* what it returned

vars == <<alg, pc, tour, input, stats, improved, root, size_, nodes_visited,
          fn, args, result>>

-----------------------------------------------------------------------------
(* point.h *)

Point(x, y, id) == [x |-> x, y |-> y, active |-> TRUE, id |-> id]

\* The instance: city k (id k-1) of the bounded inputs.
Cities == << <<0, 0>>, <<1, 0>>, <<2, 0>>, <<3, 1>>, <<1, 2>>, <<3, 3>>, <<0, 3>> >>

CityPoint(id) == Point(Cities[id + 1][1], Cities[id + 1][2], id)

Min(a, b) == IF a <= b THEN a ELSE b
Max(a, b) == IF a >= b THEN a ELSE b

At(seq, i) == seq[i + 1]

\* floor(sqrt(v)) by bisection on [lo, hi), lo*lo <= v < hi*hi.
RECURSIVE Bisect(_, _, _)
Bisect(v, lo, hi) ==
    IF hi - lo <= 1 THEN lo
    ELSE LET mid == (lo + hi) \div 2
         IN  IF mid * mid <= v THEN Bisect(v, mid, hi) ELSE Bisect(v, lo, mid)

distance_squared(a, b) ==
    (a.x - b.x) * (a.x - b.x) + (a.y - b.y) * (a.y - b.y)

\* An instance with three cities on one vertical line (equal x, the first split
\* coordinate) and pairs of candidate swaps of equal gain.
TieCities == << <<0, 0>>, <<1, 0>>, <<1, 2>>, <<1, 1>>, <<2, 2>> >>

\* An instance wide enough for a swap of approximate_2opt to leave positions
\* inactive: eight cities round a circle, in the order of the shortest tour.
WideCities ==
    << <<5, 3>>, <<4, 5>>, <<2, 6>>, <<0, 4>>, <<0, 2>>, <<1, 0>>, <<3, 0>>, <<5, 1>> >>

\* The largest squared distance between two cities.
MaxD2 ==
    LET Coords(cities) == {cities[k] : k \in 1..Len(cities)}
        all == Coords(Cities) \cup Coords(TieCities) \cup Coords(WideCities)
        d2s == {(p[1] - q[1]) * (p[1] - q[1]) + (p[2] - q[2]) * (p[2] - q[2]) :
                   p, q \in all}
    IN  CHOOSE m \in d2s : \A d \in d2s : d <= m

\* std::sqrt on the squared distances the instance can produce.
SqrtTable == [d2 \in 0..MaxD2 |-> Bisect(d2 * SCALE * SCALE, 0, 46340)]

distance(a, b) == SqrtTable[distance_squared(a, b)]

RECURSIVE SumEdges(_, _)
SumEdges(t, i) ==
    IF i >= Len(t) THEN 0
    ELSE distance(At(t, i), At(t, (i + 1) % Len(t))) + SumEdges(t, i + 1)

tour_length(t) == IF Len(t) < 2 THEN 0 ELSE SumEdges(t, 0)

-----------------------------------------------------------------------------
(* tour_utils.h *)

SwapAt(t, a, b) ==
    [k \in 1..Len(t) |-> IF k = a + 1 THEN t[b + 1]
                         ELSE IF k = b + 1 THEN t[a + 1] ELSE t[k]]

\* A swap written without the temporary: both slots end up holding t[end].
reverse_segment_NoTemp(t, start, end) ==
    [k \in 1..Len(t) |-> IF k - 1 >= start /\ k - 1 <= end /\ start < end
                         THEN t[end + 1] ELSE t[k]]

RECURSIVE reverse_segment(_, _, _)
reverse_segment(t, start, end) ==
    IF start < end
    THEN reverse_segment(SwapAt(t, start, end), start + 1, end - 1)
    ELSE t

\* std::reverse(begin + first, begin + last) on the half-open range.
std_reverse(t, first, last) ==
    IF first < last THEN reverse_segment(t, first, last - 1) ELSE t

smart_reverse_segment(t, i0, j0) ==
    LET n == Len(t)
        i == Min(i0, j0)
        j == Max(i0, j0)
        direct_length == j - i + 1
        wrap_length == n - direct_length
    IN  IF direct_length <= wrap_length
        THEN reverse_segment(t, i, j)
        ELSE std_reverse(std_reverse(std_reverse(t, 0, i), j + 1, n), 0, n)

perform_2opt_swap(t, i0, j0) ==
    LET i == Min(i0, j0)
        j == Max(i0, j0)
    IN  smart_reverse_segment(t, i + 1, j)

calculate_2opt_gain(t, i0, j0) ==
    LET n == Len(t)
        i == Min(i0, j0)
        j == Max(i0, j0)
        i_next == (i + 1) % n
        j_next == (j + 1) % n
    IN  IF j <= i + 1 \/ (i = 0 /\ j = n - 1) THEN 0
        ELSE LET old_dist == distance(At(t, i), At(t, i_next))
                             + distance(At(t, j), At(t, j_next))
                 new_dist == distance(At(t, i), At(t, j))
                             + distance(At(t, i_next), At(t, j_next))
             IN  old_dist - new_dist

calculate_2opt_gain_fast(t, i0, j0) ==
    LET n == Len(t)
        i == Min(i0, j0)
        j == Max(i0, j0)
        i_next == (i + 1) % n
        j_next == (j + 1) % n
    IN  IF j <= i + 1 \/ (i = 0 /\ j = n - 1) THEN 0
        ELSE LET old_dist_sq == distance_squared(At(t, i), At(t, i_next))
                                + distance_squared(At(t, j), At(t, j_next))
                 new_dist_sq == distance_squared(At(t, i), At(t, j))
                                + distance_squared(At(t, i_next), At(t, j_next))
             IN  old_dist_sq - new_dist_sq

\* The first loop of is_valid_tour: FALSE at the first id already seen.
RECURSIVE NoRepeatedId(_, _, _)
NoRepeatedId(t, k, seen) ==
    IF k >= Len(t) THEN TRUE
    ELSE IF At(t, k).id \in seen THEN FALSE
    ELSE NoRepeatedId(t, k + 1, seen \cup {At(t, k).id})

\* is_valid_tour without its first loop's test: a repeated id in tour goes by.
is_valid_tour_SkipDuplicateCheck(t, original_points) ==
    IF Len(t) # Len(original_points) THEN FALSE
    ELSE LET seen == {t[k].id : k \in 1..Len(t)}
         IN  \A k \in 1..Len(original_points) : original_points[k].id \in seen

is_valid_tour(t, original_points) ==
    IF Len(t) # Len(original_points) THEN FALSE
    ELSE IF ~NoRepeatedId(t, 0, {}) THEN FALSE
    ELSE LET seen == {t[k].id : k \in 1..Len(t)}
         IN  \A k \in 1..Len(original_points) : original_points[k].id \in seen

-----------------------------------------------------------------------------
(* Bounded inputs *)

\* Every order of the first n cities.
Tours(n) ==
    {[k \in 1..n |-> CityPoint(f[k])] :
        f \in {g \in [1..n -> 0..(n - 1)] :
                 \A a, b \in 1..n : a # b => g[a] # g[b]}}

\* The tours handed to an optimizer: every order that starts at city 0.
ToursFromCity0(n) == {t \in Tours(n) : t[1].id = 0}

ZeroStats ==
    [initial_length |-> 0, final_length |-> 0, num_swaps |-> 0,
     num_visited |-> 0, total_comparisons |-> 0, iterations |-> 0,
     active_nodes |-> 0]

\* The undirected edges of the cycle, by point id.
CyclicEdges(t) ==
    {{t[k].id, t[(k % Len(t)) + 1].id} : k \in 1..Len(t)}

-----------------------------------------------------------------------------
(* Direct calls of the tour utilities on a tour (tour_utils.h) *)

InitTour ==
    /\ tour \in UNION {Tours(n) : n \in 1..MaxN}
    /\ input = tour
    /\ alg = "none"
    /\ pc = "idle"
    /\ stats = ZeroStats
    /\ improved = FALSE
    /\ root = <<>>
    /\ size_ = 0
    /\ nodes_visited = 0
    /\ fn = "none"
    /\ args = [i |-> 0, j |-> 0]
    /\ result = 0

Call_reverse_segment ==
    \E i \in 0..(Len(tour) - 1) : \E j \in i..(Len(tour) - 1) :
        /\ tour' = reverse_segment(tour, i, j)
        /\ input' = tour
        /\ fn' = "reverse_segment"
        /\ args' = [i |-> i, j |-> j]
        /\ result' = 0
        /\ UNCHANGED <<alg, pc, stats, improved, root, size_, nodes_visited>>

Call_smart_reverse_segment ==
    \E i \in 0..(Len(tour) - 1) : \E j \in i..(Len(tour) - 1) :
        /\ tour' = smart_reverse_segment(tour, i, j)
        /\ input' = tour
        /\ fn' = "smart_reverse_segment"
        /\ args' = [i |-> i, j |-> j]
        /\ result' = 0
        /\ UNCHANGED <<alg, pc, stats, improved, root, size_, nodes_visited>>

Call_perform_2opt_swap ==
    \E i \in 0..(Len(tour) - 1) : \E j \in (i + 1)..(Len(tour) - 1) :
        /\ tour' = perform_2opt_swap(tour, i, j)
        /\ input' = tour
        /\ fn' = "perform_2opt_swap"
        /\ args' = [i |-> i, j |-> j]
        /\ result' = calculate_2opt_gain(tour, i, j)
        /\ UNCHANGED <<alg, pc, stats, improved, root, size_, nodes_visited>>

NextTour ==
    \/ Call_reverse_segment
    \/ Call_smart_reverse_segment
    \/ Call_perform_2opt_swap

SpecTour == InitTour /\ [][NextTour]_vars

\* The pair (i, j) of the last call is one the optimizers may swap.
EligiblePair(n, i, j) ==
    /\ n >= 4
    /\ i + 2 <= j
    /\ j < n
    /\ ~(i = 0 /\ j = n - 1)

-----------------------------------------------------------------------------
(* Direct calls of is_valid_tour on arbitrary point vectors (tour_utils.h) *)

\* The vectors handed to is_valid_tour: up to MaxValidLen points with ids in
\* 0..MaxValidId, ids may repeat.
IdVectors ==
    UNION {{[k \in 1..n |-> Point(0, 0, f[k])] : f \in [1..n -> 0..MaxValidId]}
           : n \in 0..MaxValidLen}

InitValid ==
    /\ tour \in IdVectors
    /\ input = <<>>
    /\ alg = "none"
    /\ pc = "idle"
    /\ stats = ZeroStats
    /\ improved = FALSE
    /\ root = <<>>
    /\ size_ = 0
    /\ nodes_visited = 0
    /\ fn = "none"
    /\ args = [i |-> 0, j |-> 0]
    /\ result = FALSE

\* is_valid_tour(tour, original_points): both are const, the answer is returned.
Call_is_valid_tour ==
    /\ fn = "none"
    /\ \E original_points \in IdVectors :
          /\ input' = original_points
          /\ result' = is_valid_tour(tour, original_points)
    /\ fn' = "is_valid_tour"
    /\ UNCHANGED <<alg, pc, tour, stats, improved, root, size_, nodes_visited, args>>

NextValid == Call_is_valid_tour

SpecValid == InitValid /\ [][NextValid]_vars

-----------------------------------------------------------------------------
(* kd_tree.h: a tree is <<>> (nullptr) or <<node>>, node a KDNode record *)

KDNode(p, d, l, r) == <<[point |-> p, depth |-> d, left |-> l, right |-> r]>>

SplitKey(p, depth) == IF depth % 2 = 0 THEN p.x ELSE p.y

\* What std::nth_element may leave in [start, mid): any floor(m/2) of the other
\* points, none above the median's key, with none of the rest below it.
LeftParts(pts, p, depth) ==
    {L \in SUBSET (pts \ {p}) :
        /\ Cardinality(L) = Cardinality(pts) \div 2
        /\ \A a \in L : SplitKey(a, depth) <= SplitKey(p, depth)
        /\ \A b \in pts \ (L \cup {p}) : SplitKey(b, depth) >= SplitKey(p, depth)}

\* Every tree the private build can return for the points of [start, end):
\* the arrangement nth_element leaves among equal keys is the library's choice.
RECURSIVE build(_, _)
build(pts, depth) ==
    IF pts = {} THEN {<<>>}
    ELSE UNION {
           UNION {
             {KDNode(p, depth, l, r) :
                 l \in build(L, depth + 1),
                 r \in build(pts \ (L \cup {p}), depth + 1)}
             : L \in LeftParts(pts, p, depth)}
           : p \in pts}

\* radius is fixed-point, squared distances are in squared coordinate units.
WithinSq(d_sq, radius) == d_sq * SCALE * SCALE <= radius * radius

\* The far-side test written with < : a point exactly on the rim is cut off.
FarSideInRange_Strict(diff, radius) ==
    diff * diff * SCALE * SCALE < radius * radius

\* The far subtree is entered when the splitting line is within the radius.
FarSideInRange(diff, radius) == WithinSq(diff * diff, radius)

\* [neighbors: the points pushed, in push order; visited: nodes entered]
RECURSIVE find_neighbors_frnn(_, _, _)
find_neighbors_frnn(node, query, radius) ==
    IF node = <<>> THEN [neighbors |-> <<>>, visited |-> 0]
    ELSE LET nd == node[1]
             dist_sq == distance_squared(nd.point, query)
             here == IF WithinSq(dist_sq, radius) THEN <<nd.point>> ELSE <<>>
             diff == IF nd.depth % 2 = 0 THEN query.x - nd.point.x
                                         ELSE query.y - nd.point.y
             none == [neighbors |-> <<>>, visited |-> 0]
         IN  IF diff <= 0
             THEN LET a == find_neighbors_frnn(nd.left, query, radius)
                      b == IF FarSideInRange(diff, radius)
                           THEN find_neighbors_frnn(nd.right, query, radius)
                           ELSE none
                  IN  [neighbors |-> here \o a.neighbors \o b.neighbors,
                       visited |-> 1 + a.visited + b.visited]
             ELSE LET a == find_neighbors_frnn(nd.right, query, radius)
                      b == IF FarSideInRange(diff, radius)
                           THEN find_neighbors_frnn(nd.left, query, radius)
                           ELSE none
                  IN  [neighbors |-> here \o a.neighbors \o b.neighbors,
                       visited |-> 1 + a.visited + b.visited]

\* KDTree::find_neighbors: nodes_visited = 0, then the search from the root.
find_neighbors(node, query, radius) == find_neighbors_frnn(node, query, radius)

\* 2.0 and the factor 1.5 of find_neighbors_adaptive, in fixed point.
RadiusCap == 2 * UnitsPerOne * SCALE
GrowRadius(radius) == (radius * 3) \div 2

\* The while loop of find_neighbors_adaptive; visited is nodes_visited, which
\* only a loop iteration resets.
RECURSIVE find_neighbors_adaptive(_, _, _, _, _, _)
find_neighbors_adaptive(node, query, radius, min_neighbors, neighbors, visited) ==
    IF Len(neighbors) < min_neighbors /\ radius < RadiusCap
    THEN LET r == find_neighbors_frnn(node, query, radius)
         IN  find_neighbors_adaptive(node, query,
                 IF Len(r.neighbors) < min_neighbors THEN GrowRadius(radius) ELSE radius,
                 min_neighbors, r.neighbors, r.visited)
    ELSE [neighbors |-> neighbors, visited |-> visited]

\* The far-side test with the comparison turned round.
FarSideMayBeNearer_Inverted(diff, best_dist_sq) == diff * diff > best_dist_sq

\* if (diff * diff < best_dist_sq): the far subtree is searched.
FarSideMayBeNearer(diff, best_dist_sq) == diff * diff < best_dist_sq

\* find_nearest from the state s = [best, best_dist_sq, visited]; the state it
\* leaves.
RECURSIVE find_nearest(_, _, _)
find_nearest(node, query, s) ==
    IF node = <<>> THEN s
    ELSE LET nd == node[1]
             dist_sq == distance_squared(nd.point, query)
             here == IF dist_sq < s.best_dist_sq
                     THEN [best |-> nd.point, best_dist_sq |-> dist_sq,
                           visited |-> s.visited + 1]
                     ELSE [s EXCEPT !.visited = @ + 1]
             diff == IF nd.depth % 2 = 0 THEN query.x - nd.point.x
                                         ELSE query.y - nd.point.y
             first == IF diff <= 0 THEN nd.left ELSE nd.right
             second == IF diff <= 0 THEN nd.right ELSE nd.left
             afterFirst == find_nearest(first, query, here)
         IN  IF FarSideMayBeNearer(diff, afterFirst.best_dist_sq)
             THEN find_nearest(second, query, afterFirst)
             ELSE afterFirst

\* Point(): the default-constructed point.
DefaultPoint == Point(0, 0, 0)

\* KDTree::find_nearest_neighbor: [best, visited]; without a root the default
\* point, and nodes_visited is left as it was.
find_nearest_neighbor(node, query, visited) ==
    IF node = <<>> THEN [best |-> DefaultPoint, visited |-> visited]
    ELSE LET s == find_nearest(node, query,
                      [best |-> node[1].point,
                       best_dist_sq |-> distance_squared(query, node[1].point),
                       visited |-> 0])
         IN  [best |-> s.best, visited |-> s.visited]

\* std::pair<double, Point> under operator<: the distance, then Point::operator<.
PointLess(a, b) == IF a.x # b.x THEN a.x < b.x ELSE a.y < b.y
PairLess(a, b) == a.d < b.d \/ (a.d = b.d /\ PointLess(a.p, b.p))

\* The entries std::priority_queue::top() may return: a greatest one.
Tops(heap) == {t \in heap : \A u \in heap : ~PairLess(t, u)}

\* best_k.top().first of a non-empty heap.
TopKey(heap) == (CHOOSE t \in Tops(heap) : TRUE).d

\* dist_sq < best_k.top().first
Closer(dist_sq, heap) == dist_sq < TopKey(heap)

\* The far subtree is skipped once the heap is full and its worst entry is not
\* beyond the splitting line (worst_dist is the largest double until then).
FarSideMayHoldCloser(diff, k, heap) ==
    Cardinality(heap) < k \/ diff * diff < TopKey(heap)

\* Every [heap, visited] the search of a subtree can end with, from the state s;
\* which of several greatest entries top() names is the library's choice.
\* Called with k >= 1 only: with k = 0 the first node reads top() of an empty heap.
RECURSIVE find_k_nearest(_, _, _, _)
find_k_nearest(node, query, k, s) ==
    IF node = <<>> THEN {s}
    ELSE LET nd == node[1]
             dist_sq == distance_squared(nd.point, query)
             e == [d |-> dist_sq, p |-> nd.point]
             pushed == IF Cardinality(s.heap) < k THEN {s.heap \cup {e}}
                       ELSE IF Closer(dist_sq, s.heap)
                            THEN {(s.heap \ {t}) \cup {e} : t \in Tops(s.heap)}
                            ELSE {s.heap}
             diff == IF nd.depth % 2 = 0 THEN query.x - nd.point.x
                                         ELSE query.y - nd.point.y
             first == IF diff <= 0 THEN nd.left ELSE nd.right
             second == IF diff <= 0 THEN nd.right ELSE nd.left
             afterFirst == UNION {find_k_nearest(first, query, k,
                                      [heap |-> h, visited |-> s.visited + 1])
                                  : h \in pushed}
         IN  UNION {IF FarSideMayHoldCloser(diff, k, a.heap)
                    THEN find_k_nearest(second, query, k, a)
                    ELSE {a}
                    : a \in afterFirst}

\* Popping the heap top first and reversing: every order of the entries in which
\* no entry is followed by a smaller one.
DrainReversed(heap) ==
    LET n == Cardinality(heap)
    IN  {[k \in 1..n |-> f[k].p] :
            f \in {g \in [1..n -> heap] :
                     /\ \A a, b \in 1..n : a # b => g[a] # g[b]
                     /\ \A a, b \in 1..n : a < b => ~PairLess(g[b], g[a])}}

-----------------------------------------------------------------------------
(* Direct use of one KDTree object (kd_tree.h, public part) *)

Grid == 0..MaxCoord

\* Cell number of a grid point, to list each multiset of points once.
Cell(x, y) == x * (MaxCoord + 1) + y

\* The point vectors built into a tree: n grid points with ids 0..n-1,
\* coordinates may repeat in one axis or in both.
PointVectors ==
    UNION {
      {[k \in 1..n |-> Point(c[k][1], c[k][2], k - 1)] :
          c \in {g \in [1..n -> Grid \X Grid] :
                   \A a \in 1..n : a < n =>
                       Cell(g[a][1], g[a][2]) <= Cell(g[a + 1][1], g[a + 1][2])}}
      : n \in 0..MaxPts}

Radii == {(h * SCALE) \div 2 : h \in 0..MaxHalfRadius}

Range(seq) == {seq[k] : k \in 1..Len(seq)}

InitKD ==
    /\ root = <<>>
    /\ size_ = 0
    /\ nodes_visited = 0
    /\ input = <<>>
    /\ tour = <<>>
    /\ alg = "none"
    /\ pc = "idle"
    /\ stats = ZeroStats
    /\ improved = FALSE
    /\ fn = "KDTree"
    /\ args = [x |-> 0, y |-> 0, radius |-> 0, k |-> 0]
    /\ result = <<>>

\* KDTree::build(points): an empty vector returns before anything is assigned.
KDTree_build(points) ==
    IF points = <<>>
    THEN UNCHANGED <<root, size_, nodes_visited>>
    ELSE /\ root' \in build(Range(points), 0)
         /\ size_' = Len(points)
         /\ nodes_visited' = 0

\* The first call on a fresh tree object: build.
Call_build ==
    /\ pc = "idle"
    /\ fn = "KDTree"
    /\ \E points \in PointVectors :
        /\ KDTree_build(points)
        /\ input' = points
    /\ fn' = "build"
    /\ UNCHANGED <<alg, pc, tour, stats, improved, args, result>>

\* One query of the built tree (a query leaves nothing behind for the next
\* one: each resets nodes_visited and the tree is not changed).
Call_find_neighbors ==
    /\ pc = "idle"
    /\ fn = "build"
    /\ \E x \in Grid, y \in Grid, radius \in Radii :
        LET r == find_neighbors(root, Point(x, y, 0), radius)
        IN  /\ result' = r.neighbors
            /\ nodes_visited' = r.visited
            /\ args' = [x |-> x, y |-> y, radius |-> radius, k |-> 0]
    /\ fn' = "find_neighbors"
    /\ UNCHANGED <<alg, pc, tour, input, stats, improved, root, size_>>

\* With k = 0 and a node to visit, best_k.top() is read on an empty queue:
\* the call may be killed there, or read garbage and go on to return nothing.
Call_find_k_nearest_neighbors ==
    /\ pc = "idle"
    /\ fn = "build"
    /\ \E x \in Grid, y \in Grid, k \in 0..MaxK :
        /\ args' = [x |-> x, y |-> y, radius |-> 0, k |-> k]
        /\ IF k = 0 /\ root # <<>>
           THEN /\ pc' \in {"idle", "undefined"}
                /\ result' = <<>>
                /\ nodes_visited' = 1
           ELSE \E s \in find_k_nearest(root, Point(x, y, 0), k,
                                        [heap |-> {}, visited |-> 0]) :
                  /\ result' \in DrainReversed(s.heap)
                  /\ nodes_visited' = s.visited
                  /\ pc' = pc
    /\ fn' = "find_k_nearest_neighbors"
    /\ UNCHANGED <<alg, tour, input, stats, improved, root, size_>>

Call_find_nearest_neighbor ==
    /\ pc = "idle"
    /\ fn = "build"
    /\ \E x \in Grid, y \in Grid :
        LET r == find_nearest_neighbor(root, Point(x, y, 0), nodes_visited)
        IN  /\ result' = r.best
            /\ nodes_visited' = r.visited
            /\ args' = [x |-> x, y |-> y, radius |-> 0, k |-> 0]
    /\ fn' = "find_nearest_neighbor"
    /\ UNCHANGED <<alg, pc, tour, input, stats, improved, root, size_>>

\* The base radii of an adaptive query: small ones, and one at the 2.0 cap.
AdaptiveRadii == {r \in Radii : r > 0 /\ r <= SCALE} \cup {RadiusCap}

\* args.k holds min_neighbors.
Call_find_neighbors_adaptive ==
    /\ pc = "idle"
    /\ fn = "build"
    /\ \E x \in Grid, y \in Grid, base_radius \in AdaptiveRadii,
          min_neighbors \in 0..MaxK :
        LET r == find_neighbors_adaptive(root, Point(x, y, 0), base_radius,
                                         min_neighbors, <<>>, nodes_visited)
        IN  /\ result' = r.neighbors
            /\ nodes_visited' = r.visited
            /\ args' = [x |-> x, y |-> y, radius |-> base_radius,
                        k |-> min_neighbors]
    /\ fn' = "find_neighbors_adaptive"
    /\ UNCHANGED <<alg, pc, tour, input, stats, improved, root, size_>>

NextKD ==
    \/ Call_build
    \/ Call_find_neighbors
    \/ Call_find_k_nearest_neighbors
    \/ Call_find_nearest_neighbor
    \/ Call_find_neighbors_adaptive

SpecKD == InitKD /\ [][NextKD]_vars

\* A further build on the same tree object, after an earlier one.
Call_build_again ==
    /\ pc = "idle"
    /\ fn = "build"
    /\ \E points \in PointVectors :
        /\ KDTree_build(points)
        /\ input' = points
    /\ fn' = "build"
    /\ UNCHANGED <<alg, pc, tour, stats, improved, args, result>>

NextRebuild ==
    \/ Call_build
    \/ Call_build_again
    \/ Call_find_neighbors
    \/ Call_find_k_nearest_neighbors
    \/ Call_find_nearest_neighbor
    \/ Call_find_neighbors_adaptive

SpecRebuild == InitKD /\ [][NextRebuild]_vars

\* Larger point vectors, of MaxPts + 1 to MaxBuildPts grid points: their trees
\* have nodes with children at depth 1, which split on y.
LargerPointVectors ==
    UNION {
      {[k \in 1..n |-> Point(c[k][1], c[k][2], k - 1)] :
          c \in {g \in [1..n -> Grid \X Grid] :
                   \A a \in 1..n : a < n =>
                       Cell(g[a][1], g[a][2]) <= Cell(g[a + 1][1], g[a + 1][2])}}
      : n \in (MaxPts + 1)..MaxBuildPts}

\* build on a fresh tree object, from one of the larger vectors.
Call_build_larger ==
    /\ pc = "idle"
    /\ fn = "KDTree"
    /\ \E points \in LargerPointVectors :
        /\ KDTree_build(points)
        /\ input' = points
    /\ fn' = "build"
    /\ UNCHANGED <<alg, pc, tour, stats, improved, args, result>>

SpecBuild == InitKD /\ [][Call_build_larger]_vars

-----------------------------------------------------------------------------
(* two_opt.h: what one pass of each optimizer finds *)

\* const size_t max_iterations
max_iterations == 1000
\* const double min_improvement = 1e-9, in fixed-point units: 1e-9 is less than
\* one unit, so a representable gain exceeds it exactly when it exceeds 0.
min_improvement == 0
\* geometric_2opt rebuilds its tree when num_swaps % 25 == 0.
GeometricRebuildEvery == 25
\* hybrid_2opt rebuilds its tree when num_swaps % 30 == 0.
HybridRebuildEvery == 30

\* i < tour.size() - 2 on size_t: below two points the bound wraps round to
\* 2^64 - 2 + n, which is above every index.
BelowSizeMinus2(i, n) == IF n >= 2 THEN i < n - 2 ELSE TRUE

\* The loop condition, tested with <= : one pass too many.
LoopCondition_OffByOne(imp, iterations) == imp /\ iterations <= max_iterations

\* while (improved && stats.iterations < max_iterations)
LoopCondition(imp, iterations) == imp /\ iterations < max_iterations

\* What a pass has found so far.
NoCandidate ==
    [best_gain |-> min_improvement, best_i |-> 0, best_j |-> 0,
     comparisons |-> 0, visited |-> 0]

\* The comparison written with >= : of pairs with equal gain the last one wins.
Evaluate_LastWins(acc, gain, i, j) ==
    IF gain >= acc.best_gain
    THEN [acc EXCEPT !.best_gain = gain, !.best_i = i, !.best_j = j,
                     !.comparisons = @ + 1]
    ELSE [acc EXCEPT !.comparisons = @ + 1]

\* A pair that is evaluated: the counter goes up, a strictly better gain wins.
Evaluate(acc, gain, i, j) ==
    IF gain > acc.best_gain
    THEN [acc EXCEPT !.best_gain = gain, !.best_i = i, !.best_j = j,
                     !.comparisons = @ + 1]
    ELSE [acc EXCEPT !.comparisons = @ + 1]

\* if (best_gain > min_improvement)
Accepts(best_gain) == best_gain > min_improvement

\* basic_2opt: for i in [0, n-2), for j in [i+2, n), skipping (0, n-1).
\* On a tour of fewer than two points tour.size() - 2 wraps round: the outer loop
\* then goes on far beyond the tour (about 2^64 rounds), each with an empty inner
\* loop, and reads no element.
RECURSIVE BasicScan(_, _, _, _)
BasicScan(t, i, j, acc) ==
    IF ~BelowSizeMinus2(i, Len(t)) \/ i >= Len(t) THEN acc
    ELSE IF ~(j < Len(t)) THEN BasicScan(t, i + 1, i + 3, acc)
    ELSE IF j = Len(t) - 1 /\ i = 0 THEN BasicScan(t, i, j + 1, acc)
    ELSE BasicScan(t, i, j + 1, Evaluate(acc, calculate_2opt_gain(t, i, j), i, j))

\* std::find_if by id: the index of the first point with that id, or n.
RECURSIVE IndexOfId(_, _, _)
IndexOfId(t, id, k) ==
    IF k >= Len(t) THEN Len(t)
    ELSE IF At(t, k).id = id THEN k
    ELSE IndexOfId(t, id, k + 1)

\* geometric_2opt: the loop over the neighbors of tour[i].
RECURSIVE GeometricNeighbors(_, _, _, _, _)
GeometricNeighbors(t, i, neighbors, k, acc) ==
    IF k > Len(neighbors) THEN acc
    ELSE LET j == IndexOfId(t, neighbors[k].id, 0)
         IN  IF j # Len(t) /\ j > i + 1 /\ ~(j = Len(t) - 1 /\ i = 0)
             THEN GeometricNeighbors(t, i, neighbors, k + 1,
                      Evaluate(acc, calculate_2opt_gain(t, i, j), i, j))
             ELSE GeometricNeighbors(t, i, neighbors, k + 1, acc)

\* std::max(avg_edge_dist * 3.0, 0.1)
GeometricRadius(t, i) ==
    LET n == Len(t)
        edge_dist == distance(At(t, i), At(t, (i + 1) % n))
        prev_edge_dist == distance(At(t, (i + n - 1) % n), At(t, i))
    IN  Max(((edge_dist + prev_edge_dist) * 3) \div 2, (UnitsPerOne * SCALE) \div 10)

\* The neighbors of tour[i]: one query, and a second one at twice the radius
\* when fewer than 5 came back.  visited is nodes_visited after the last query.
GeometricQuery(node, t, i) ==
    LET radius == GeometricRadius(t, i)
        first == find_neighbors(node, At(t, i), radius)
    IN  IF Len(first.neighbors) < 5
        THEN find_neighbors(node, At(t, i), radius * 2)
        ELSE first

\* Taken on a tour of at least two points (see GeometricReadsOutside).
RECURSIVE GeometricScan(_, _, _, _)
GeometricScan(node, t, i, acc) ==
    IF ~(i < Len(t) - 2) THEN acc
    ELSE LET q == GeometricQuery(node, t, i)
         IN  GeometricScan(node, t, i + 1,
                 GeometricNeighbors(t, i, q.neighbors, 1,
                                    [acc EXCEPT !.visited = q.visited]))

\* The indices of the active points, ascending.
RECURSIVE ActiveIndices(_, _)
ActiveIndices(t, i) ==
    IF i >= Len(t) THEN <<>>
    ELSE (IF At(t, i).active THEN <<i>> ELSE <<>>) \o ActiveIndices(t, i + 1)

\* approximate_2opt: pairs of active indices, idx_i < idx_j (1-based here).
RECURSIVE ApproximateScan(_, _, _, _, _)
ApproximateScan(t, active_indices, idx_i, idx_j, acc) ==
    IF idx_i > Len(active_indices) THEN acc
    ELSE IF idx_j > Len(active_indices)
         THEN ApproximateScan(t, active_indices, idx_i + 1, idx_i + 2, acc)
    ELSE LET i == active_indices[idx_i]
             j == active_indices[idx_j]
         IN  IF j > i + 1 /\ ~(j = Len(t) - 1 /\ i = 0)
             THEN ApproximateScan(t, active_indices, idx_i, idx_j + 1,
                      Evaluate(acc, calculate_2opt_gain(t, i, j), i, j))
             ELSE ApproximateScan(t, active_indices, idx_i, idx_j + 1, acc)

\* hybrid_2opt: the loop over the neighbors of tour[i]; the gain is the
\* squared-distance one.
RECURSIVE HybridNeighbors(_, _, _, _, _)
HybridNeighbors(t, i, neighbors, k, acc) ==
    IF k > Len(neighbors) THEN acc
    ELSE LET j == IndexOfId(t, neighbors[k].id, 0)
         IN  IF j # Len(t) /\ j > i + 1 /\ ~(j = Len(t) - 1 /\ i = 0)
                /\ At(t, j).active
             THEN HybridNeighbors(t, i, neighbors, k + 1,
                      Evaluate(acc, calculate_2opt_gain_fast(t, i, j), i, j))
             ELSE HybridNeighbors(t, i, neighbors, k + 1, acc)

\* std::max(edge_dist * 4.0, 0.15)
HybridRadius(t, i) ==
    Max(distance(At(t, i), At(t, (i + 1) % Len(t))) * 4,
        (15 * UnitsPerOne * SCALE) \div 100)

RECURSIVE HybridScan(_, _, _, _, _)
HybridScan(node, t, active_indices, k, acc) ==
    IF k > Len(active_indices) THEN acc
    ELSE LET i == active_indices[k]
         IN  IF ~BelowSizeMinus2(i, Len(t))
             THEN HybridScan(node, t, active_indices, k + 1, acc)
             ELSE LET q == find_neighbors_adaptive(node, At(t, i), HybridRadius(t, i),
                                                   8, <<>>, acc.visited)
                  IN  HybridScan(node, t, active_indices, k + 1,
                          HybridNeighbors(t, i, q.neighbors, 1,
                                          [acc EXCEPT !.visited = q.visited]))

\* The marking written as an assignment of a fresh active Point: the marked
\* slots lose their point.
SetActive_AssignsPoint(t, positions) ==
    [k \in 1..Len(t) |-> IF (k - 1) \in positions THEN Point(0, 0, 0)
                         ELSE [t[k] EXCEPT !.active = FALSE]]

SetActive(t, positions) ==
    [k \in 1..Len(t) |-> [t[k] EXCEPT !.active = (k - 1) \in positions]]

\* Only the positions around best_i: the second insert left out.
Around_OneEnd(n, best_i, best_j, w) ==
    {(best_i + n + offset) % n : offset \in (-w)..w}

\* The positions (best + n + offset) % n for offset in -w..w, around both ends.
Around(n, best_i, best_j, w) ==
    {(best_i + n + offset) % n : offset \in (-w)..w}
        \cup {(best_j + n + offset) % n : offset \in (-w)..w}

-----------------------------------------------------------------------------
(* two_opt.h: the four optimizers, one action per pass *)

Algs == {"basic", "geometric", "approximate", "hybrid"}

InitOpt ==
    /\ alg \in Algs
    /\ tour \in UNION {ToursFromCity0(n) : n \in 2..MaxN}
    /\ input = tour
    /\ pc = "call"
    /\ stats = ZeroStats
    /\ improved = FALSE
    /\ root = <<>>
    /\ size_ = 0
    /\ nodes_visited = 0
    /\ fn = "none"
    /\ args = [i |-> 0, j |-> 0]
    /\ result = 0

AllActive(t) == [k \in 1..Len(t) |-> [t[k] EXCEPT !.active = TRUE]]

\* The counter raised once in a pass, outside the scan, not once for each gain.
PassStats_CountsPasses(acc, swapped, active_nodes) ==
    [stats EXCEPT !.iterations = @ + 1,
                  !.total_comparisons = @ + 1,
                  !.num_visited = @ + acc.visited,
                  !.num_swaps = IF swapped THEN @ + 1 ELSE @,
                  !.active_nodes = active_nodes]

\* The statistics after a pass that found acc.
PassStats(acc, swapped, active_nodes) ==
    [stats EXCEPT !.iterations = @ + 1,
                  !.total_comparisons = @ + acc.comparisons,
                  !.num_visited = @ + acc.visited,
                  !.num_swaps = IF swapped THEN @ + 1 ELSE @,
                  !.active_nodes = active_nodes]

\* ---- basic_2opt
Basic_enter ==
    /\ alg = "basic" /\ pc = "call"
    /\ stats' = [stats EXCEPT !.initial_length = tour_length(tour)]
    /\ improved' = TRUE
    /\ pc' = "loop"
    /\ UNCHANGED <<alg, tour, input, root, size_, nodes_visited, fn, args, result>>

Basic_pass ==
    /\ alg = "basic" /\ pc = "loop"
    /\ LoopCondition(improved, stats.iterations)
    /\ LET acc == BasicScan(tour, 0, 2, NoCandidate)
           swapped == Accepts(acc.best_gain)
       IN  /\ tour' = IF swapped THEN perform_2opt_swap(tour, acc.best_i, acc.best_j)
                      ELSE tour
           /\ stats' = PassStats(acc, swapped, stats.active_nodes)
           /\ improved' = swapped
    /\ UNCHANGED <<alg, pc, input, root, size_, nodes_visited, fn, args, result>>

Basic_return ==
    /\ alg = "basic" /\ pc = "loop"
    /\ ~LoopCondition(improved, stats.iterations)
    /\ stats' = [stats EXCEPT !.final_length = tour_length(tour)]
    /\ pc' = "done"
    /\ UNCHANGED <<alg, tour, input, improved, root, size_, nodes_visited,
                   fn, args, result>>

\* ---- geometric_2opt
\* On a tour of fewer than two points the loop bound wraps round and the scan
\* leaves the tour: on the empty tour (i + 1) % tour.size() divides by zero, on a
\* single point tour[1] is read.
GeometricReadsOutside(t) == Len(t) < 2

Geometric_enter ==
    /\ alg = "geometric" /\ pc = "call"
    /\ stats' = [stats EXCEPT !.initial_length = tour_length(tour)]
    /\ KDTree_build(tour)
    /\ improved' = TRUE
    /\ pc' = "loop"
    /\ UNCHANGED <<alg, tour, input, fn, args, result>>

Geometric_pass ==
    /\ alg = "geometric" /\ pc = "loop"
    /\ LoopCondition(improved, stats.iterations)
    /\ IF GeometricReadsOutside(tour)
       THEN \* undefined behaviour: the builds at hand kill the call here
            /\ pc' = "undefined"
            /\ stats' = [stats EXCEPT !.iterations = @ + 1]
            /\ improved' = FALSE
            /\ UNCHANGED <<tour, root, size_, nodes_visited>>
       ELSE LET acc == GeometricScan(root, tour, 0, NoCandidate)
                swapped == Accepts(acc.best_gain)
            IN  /\ tour' = IF swapped
                           THEN perform_2opt_swap(tour, acc.best_i, acc.best_j)
                           ELSE tour
                /\ stats' = PassStats(acc, swapped, stats.active_nodes)
                /\ improved' = swapped
                /\ IF swapped /\ stats'.num_swaps % GeometricRebuildEvery = 0
                   THEN KDTree_build(tour')
                   ELSE /\ nodes_visited' = acc.visited
                        /\ UNCHANGED <<root, size_>>
                /\ pc' = pc
    /\ UNCHANGED <<alg, input, fn, args, result>>

Geometric_return ==
    /\ alg = "geometric" /\ pc = "loop"
    /\ ~LoopCondition(improved, stats.iterations)
    /\ stats' = [stats EXCEPT !.final_length = tour_length(tour)]
    /\ pc' = "done"
    /\ UNCHANGED <<alg, tour, input, improved, root, size_, nodes_visited,
                   fn, args, result>>

\* ---- approximate_2opt
Approximate_enter ==
    /\ alg = "approximate" /\ pc = "call"
    /\ stats' = [stats EXCEPT !.initial_length = tour_length(tour)]
    /\ tour' = AllActive(tour)
    /\ improved' = TRUE
    /\ pc' = "loop"
    /\ UNCHANGED <<alg, input, root, size_, nodes_visited, fn, args, result>>

\* A pass without a swap marks to_activate_count - active_indices.size() points
\* drawn at random (std::random_device), with repetition.
Approximate_pass ==
    /\ alg = "approximate" /\ pc = "loop"
    /\ LoopCondition(improved, stats.iterations)
    /\ LET n == Len(tour)
           active_indices == ActiveIndices(tour, 0)
           acc == ApproximateScan(tour, active_indices, 1, 2, NoCandidate)
           swapped == Accepts(acc.best_gain)
           draws == Min(n, Len(active_indices) + 10) - Len(active_indices)
       IN  /\ IF swapped
              THEN tour' = SetActive(perform_2opt_swap(tour, acc.best_i, acc.best_j),
                                     Around(n, acc.best_i, acc.best_j, 2))
              ELSE IF draws > 0
              THEN \E drawn \in SUBSET (0..(n - 1)) :
                      /\ drawn # {}
                      /\ Cardinality(drawn) <= draws
                      /\ tour' = SetActive(tour, Range(active_indices) \cup drawn)
              ELSE tour' = tour
           /\ stats' = PassStats(acc, swapped, Len(active_indices))
           /\ improved' = swapped
    /\ UNCHANGED <<alg, pc, input, root, size_, nodes_visited, fn, args, result>>

Approximate_return ==
    /\ alg = "approximate" /\ pc = "loop"
    /\ ~LoopCondition(improved, stats.iterations)
    /\ stats' = [stats EXCEPT !.final_length = tour_length(tour)]
    /\ pc' = "done"
    /\ UNCHANGED <<alg, tour, input, improved, root, size_, nodes_visited,
                   fn, args, result>>

\* ---- hybrid_2opt (reset_nodes_visited at the start of a pass: a pass without
\* a query adds nothing)
Hybrid_enter ==
    /\ alg = "hybrid" /\ pc = "call"
    /\ stats' = [stats EXCEPT !.initial_length = tour_length(tour)]
    /\ KDTree_build(tour)
    /\ tour' = AllActive(tour)
    /\ improved' = TRUE
    /\ pc' = "loop"
    /\ UNCHANGED <<alg, input, fn, args, result>>

Hybrid_pass ==
    /\ alg = "hybrid" /\ pc = "loop"
    /\ LoopCondition(improved, stats.iterations)
    /\ LET n == Len(tour)
           active_indices == ActiveIndices(tour, 0)
           acc == HybridScan(root, tour, active_indices, 1, NoCandidate)
           swapped == Accepts(acc.best_gain)
           nodes_to_activate == Min(n, Max(Len(active_indices) + 15, n \div 4))
       IN  /\ tour' = IF swapped
                      THEN SetActive(perform_2opt_swap(tour, acc.best_i, acc.best_j),
                                     Around(n, acc.best_i, acc.best_j, 4))
                      ELSE SetActive(tour, {i \in 0..(n - 1) :
                                              i % 2 = 0 /\ i < nodes_to_activate})
           /\ stats' = PassStats(acc, swapped, Len(active_indices))
           /\ improved' = swapped
           /\ IF swapped /\ stats'.num_swaps % HybridRebuildEvery = 0
              THEN KDTree_build(tour')
              ELSE /\ nodes_visited' = acc.visited
                   /\ UNCHANGED <<root, size_>>
    /\ UNCHANGED <<alg, pc, input, fn, args, result>>

Hybrid_return ==
    /\ alg = "hybrid" /\ pc = "loop"
    /\ ~LoopCondition(improved, stats.iterations)
    /\ stats' = [stats EXCEPT !.final_length = tour_length(tour)]
    /\ pc' = "done"
    /\ UNCHANGED <<alg, tour, input, improved, root, size_, nodes_visited,
                   fn, args, result>>

Next ==
    \/ Basic_enter \/ Basic_pass \/ Basic_return
    \/ Geometric_enter \/ Geometric_pass \/ Geometric_return
    \/ Approximate_enter \/ Approximate_pass \/ Approximate_return
    \/ Hybrid_enter \/ Hybrid_pass \/ Hybrid_return

Spec == InitOpt /\ [][Next]_vars

\* Every order of the tie instance that starts with its cities 0 and 1.
TieTours ==
    LET n == Len(TieCities)
    IN  {[k \in 1..n |-> Point(TieCities[f[k] + 1][1], TieCities[f[k] + 1][2], f[k])] :
            f \in {g \in [1..n -> 0..(n - 1)] :
                     /\ g[1] = 0 /\ g[2] = 1
                     /\ \A a, b \in 1..n : a # b => g[a] # g[b]}}

\* The optimizers on the tie instance.
InitTie ==
    /\ alg \in Algs
    /\ tour \in TieTours
    /\ input = tour
    /\ pc = "call"
    /\ stats = ZeroStats
    /\ improved = FALSE
    /\ root = <<>>
    /\ size_ = 0
    /\ nodes_visited = 0
    /\ fn = "none"
    /\ args = [i |-> 0, j |-> 0]
    /\ result = 0

SpecTie == InitTie /\ [][Next]_vars

\* The shortest tour of the wide instance with the cities at two positions
\* exchanged, for every pair of positions.
WideTours ==
    LET n == Len(WideCities)
        CityAt(a, b, pos) == IF pos = a THEN b ELSE IF pos = b THEN a ELSE pos
    IN  {[q \in 1..n |-> Point(WideCities[CityAt(a, b, q - 1) + 1][1],
                               WideCities[CityAt(a, b, q - 1) + 1][2],
                               CityAt(a, b, q - 1))] :
            a \in 0..(n - 1), b \in 0..(n - 1)}

\* approximate_2opt on the wide instance.
InitWide ==
    /\ alg = "approximate"
    /\ tour \in WideTours
    /\ input = tour
    /\ pc = "call"
    /\ stats = ZeroStats
    /\ improved = FALSE
    /\ root = <<>>
    /\ size_ = 0
    /\ nodes_visited = 0
    /\ fn = "none"
    /\ args = [i |-> 0, j |-> 0]
    /\ result = 0

NextWide == Approximate_enter \/ Approximate_pass \/ Approximate_return

SpecWide == InitWide /\ [][NextWide]_vars

\* Every order of up to n of the cities, without repetition.
ShortTours(n) ==
    LET ids == 0..(Len(Cities) - 1)
    IN  UNION {{[k \in 1..m |-> CityPoint(f[k])] :
                  f \in {g \in [1..m -> ids] :
                           \A a, b \in 1..m : a # b => g[a] # g[b]}}
               : m \in 0..n}

\* The optimizers on the tours below the smallest one that has a swap.
InitShort ==
    /\ alg \in Algs
    /\ tour \in ShortTours(3)
    /\ input = tour
    /\ pc = "call"
    /\ stats = ZeroStats
    /\ improved = FALSE
    /\ root = <<>>
    /\ size_ = 0
    /\ nodes_visited = 0
    /\ fn = "none"
    /\ args = [i |-> 0, j |-> 0]
    /\ result = 0

SpecShort == InitShort /\ [][Next]_vars

-----------------------------------------------------------------------------
(* Claims about the tour utilities (checked under SpecTour) *)

\* C4: for a tour of n >= 4 distinct points and a pair (i, j) with i + 2 <= j,
\* (i, j) # (0, n-1), perform_2opt_swap(tour, i, j) leaves the cyclic edge set of
\* the old tour T with {T[i], T[i+1]} and {T[j], T[(j+1) mod n]} removed and
\* {T[i], T[j]} and {T[i+1], T[(j+1) mod n]} added, every other edge kept.
C4_SwapReplacesTwoEdges ==
    (fn = "perform_2opt_swap" /\ EligiblePair(Len(input), args.i, args.j)) =>
        LET n == Len(input)
            i == args.i
            j == args.j
            Edge(a, b) == {At(input, a).id, At(input, b).id}
            removed == {Edge(i, i + 1), Edge(j, (j + 1) % n)}
            added == {Edge(i, j), Edge(i + 1, (j + 1) % n)}
        IN  CyclicEdges(tour) = (CyclicEdges(input) \ removed) \cup added

\* C5: for every tour and every 0 <= i <= j < n, smart_reverse_segment(tour, i, j)
\* and reverse_segment(tour, i, j) on copies of the same tour give tours with the
\* same set of undirected cyclic edges, in the direct and in the wrap-around branch.
C5_SmartReverseSameEdges ==
    fn = "smart_reverse_segment" =>
        CyclicEdges(tour) = CyclicEdges(reverse_segment(input, args.i, args.j))

\* C6: for every pair (i, j) with i + 2 <= j < n and (i, j) # (0, n-1),
\* calculate_2opt_gain(T, i, j) equals tour_length(T) minus the length of the tour
\* perform_2opt_swap makes of T at (i, j); a positive gain means a shorter tour.
C6_GainIsLengthDifference ==
    (fn = "perform_2opt_swap" /\ EligiblePair(Len(input), args.i, args.j)) =>
        /\ result = tour_length(input) - tour_length(tour)
        /\ (result > 0 => tour_length(tour) < tour_length(input))

-----------------------------------------------------------------------------
(* Claims about the k-d tree (checked under SpecKD) *)

\* The query point of the last call.
QueryPoint == Point(args.x, args.y, 0)

\* C9: for every point set built into a KDTree (points may share a coordinate or
\* coincide), every query q and every radius r >= 0, find_neighbors(q, r) returns
\* exactly the indexed points p with d(p, q) <= r: none within the radius is
\* missed by pruning, none outside is returned, and each appears at most once.
C9_FindNeighborsExact ==
    fn = "find_neighbors" =>
        /\ Range(result) =
              {p \in Range(input) :
                  WithinSq(distance_squared(p, QueryPoint), args.radius)}
        /\ \A a, b \in 1..Len(result) : a # b => result[a] # result[b]

\* A full tree, two points sharing a coordinate, a query that pruned a subtree
\* and returned some of the points but not all.
C9_Witness ==
    /\ fn = "find_neighbors"
    /\ Len(input) = MaxPts
    /\ \E a, b \in 1..Len(input) :
          a # b /\ (input[a].x = input[b].x \/ input[a].y = input[b].y)
    /\ nodes_visited < size_
    /\ Len(result) >= 1
    /\ Len(result) < Len(input)

\* C10: for every built tree, every query q and every k >= 0,
\* find_k_nearest_neighbors(q, k) returns exactly min(k, size()) indexed points,
\* none farther from q than an indexed point left out, in non-decreasing order of
\* distance to q.
C10_KNearestExact ==
    fn = "find_k_nearest_neighbors" =>
        /\ pc # "undefined"
        /\ Len(result) = Min(args.k, size_)
        /\ Range(result) \subseteq Range(input)
        /\ \A a, b \in 1..Len(result) : a # b => result[a] # result[b]
        /\ \A p \in Range(result) : \A o \in Range(input) \ Range(result) :
              distance_squared(p, QueryPoint) <= distance_squared(o, QueryPoint)
        /\ \A a, b \in 1..Len(result) : a < b =>
              distance_squared(result[a], QueryPoint)
                  <= distance_squared(result[b], QueryPoint)

-----------------------------------------------------------------------------
(* Claims about the optimizers (checked under Spec) *)

\* C1: for each of the four optimizers and every valid input tour of n >= 4
\* points, the returned stats satisfy final_length <= initial_length: the tour
\* left at return is never longer than the tour passed in.
C1_NeverLonger ==
    (pc = "done" /\ Len(input) >= 4) =>
        /\ stats.final_length <= stats.initial_length
        /\ tour_length(tour) <= tour_length(input)

\* C2: for every optimizer and every input tour with distinct ids, after every
\* pass and at return the tour has as many points as the input and holds each
\* input id exactly once: is_valid_tour(tour, input), whichever reversal branch
\* the swaps took.
C2_PermutationPreserved ==
    pc \in {"loop", "done"} => is_valid_tour(tour, input)

\* A first swap that reversed the longer arc (the wrap-around branch) and
\* changed the order of the points.
C2_Witness ==
    /\ pc = "loop"
    /\ stats.num_swaps = 1
    /\ \E i \in 0..(Len(input) - 1) : \E j \in (i + 2)..(Len(input) - 1) :
          /\ 2 * (j - i) > Len(input)
          /\ [k \in 1..Len(tour) |-> tour[k].id]
                = [k \in 1..Len(input) |-> perform_2opt_swap(input, i, j)[k].id]
    /\ [k \in 1..Len(tour) |-> tour[k].id] # [k \in 1..Len(input) |-> input[k].id]

\* Some pair the scan of basic_2opt evaluates still has a gain above
\* MIN_IMPROVEMENT.
HasImprovingPair(t) ==
    \E i \in 0..(Len(t) - 1) : \E j \in 0..(Len(t) - 1) :
        /\ i + 2 <= j
        /\ ~(i = 0 /\ j = Len(t) - 1)
        /\ calculate_2opt_gain(t, i, j) > min_improvement

\* C3: when basic_2opt returns, the tour is a 2-opt local minimum: no pair (i, j)
\* with i + 2 <= j < n, (i, j) # (0, n-1), has calculate_2opt_gain above
\* MIN_IMPROVEMENT, for every input tour.
C3_BasicLocalMinimum ==
    (alg = "basic" /\ pc = "done") => ~HasImprovingPair(tour)

\* C7: in every optimizer, a pass that increments num_swaps leaves the tour
\* strictly shorter than before the pass, so the lengths after swapping passes
\* decrease strictly and no tour (as a cyclic edge set) comes back.
C7_SwapsShorten ==
    [][stats'.num_swaps > stats.num_swaps =>
          /\ tour_length(tour') < tour_length(tour)
          /\ CyclicEdges(tour') # CyclicEdges(tour)]_vars

\* What the loop keeps true of the counters.
C8_Counters ==
    /\ stats.iterations <= max_iterations
    /\ stats.num_swaps <= stats.iterations
    /\ pc = "done" =>
          /\ stats.iterations >= 1
          /\ \/ (~improved /\ stats.num_swaps = stats.iterations - 1)
             \/ stats.iterations = max_iterations

\* C8: every optimizer call on a tour of n >= 2 points terminates with
\* 1 <= iterations <= 1000; at return either the last pass applied no swap
\* (num_swaps = iterations - 1) or iterations = 1000; num_swaps never exceeds
\* iterations and a pass applies at most one swap.  Termination is the variant:
\* every step of a call in its loop is one more pass or the return, and the
\* number of passes never exceeds the cap.
C8_TerminatesWithinCap ==
    /\ []C8_Counters
    /\ [][/\ stats'.num_swaps <= stats.num_swaps + 1
          /\ pc = "loop" =>
                \/ stats'.iterations = stats.iterations + 1 /\ pc' = "loop"
                \/ stats'.iterations = stats.iterations /\ pc' = "done"
          /\ pc # "done"]_vars

\* A call that the cap cut short: the 1000th pass still applied a swap.
C8_Witness ==
    /\ pc = "done"
    /\ stats.iterations = max_iterations
    /\ stats.num_swaps = max_iterations
    /\ improved

\* C11: on a non-empty tree find_nearest_neighbor(q) returns an indexed point
\* whose distance to q is minimal among all indexed points (the far-side test
\* never discards a strictly closer point); on a tree that holds no points it
\* returns the default Point.
C11_NearestIsMinimal ==
    fn = "find_nearest_neighbor" =>
        IF input = <<>>
        THEN result = DefaultPoint
        ELSE /\ result \in Range(input)
             /\ \A p \in Range(input) :
                   distance_squared(result, QueryPoint)
                       <= distance_squared(p, QueryPoint)

\* A full tree whose root is not the answer, answered without entering every node.
C11_Witness ==
    /\ fn = "find_nearest_neighbor"
    /\ Len(input) = MaxPts
    /\ result # root[1].point
    /\ distance_squared(result, QueryPoint)
          < distance_squared(root[1].point, QueryPoint)
    /\ nodes_visited < size_

\* The list C12 describes: find_neighbors at the first radius of r, 1.5 r, ...
\* that finds at least m points, or at the last radius below the cap.
RECURSIVE AdaptiveAsClaimed(_, _)
AdaptiveAsClaimed(r, m) ==
    LET found == find_neighbors(root, QueryPoint, r).neighbors
    IN  IF Len(found) >= m \/ GrowRadius(r) >= RadiusCap THEN found
        ELSE AdaptiveAsClaimed(GrowRadius(r), m)

\* C12: find_neighbors_adaptive(q, r0, m) returns the result of find_neighbors(q, r)
\* for the first radius r of r0, 1.5 r0, 1.5^2 r0, ... at which at least m points
\* are found, or, when the 2.0 cap is hit first, that of the last radius queried;
\* so for every r0 > 0 and every m the list holds every indexed point within
\* distance r0 of q.
C12_AdaptiveCoversBaseRadius ==
    fn = "find_neighbors_adaptive" =>
        /\ result = AdaptiveAsClaimed(args.radius, args.k)
        /\ \A p \in Range(input) :
              WithinSq(distance_squared(p, QueryPoint), args.radius)
                  => p \in Range(result)

-----------------------------------------------------------------------------
(* Claims about the optimizers on short tours (checked under SpecShort) *)

\* C13: each of the four optimizers, called on an empty tour, terminates and
\* returns stats with initial_length = 0, final_length = 0 and num_swaps = 0,
\* without reading any tour element (the loop bound tour.size() - 2 included).
C13_EmptyTourReturnsZeroStats ==
    Len(input) = 0 =>
        /\ pc # "undefined"
        /\ pc = "done" =>
              /\ stats.initial_length = 0
              /\ stats.final_length = 0
              /\ stats.num_swaps = 0

\* C14: each of the four optimizers, called on a tour of 1, 2 or 3 points,
\* evaluates no eligible swap, terminates with num_swaps = 0, leaves the order
\* unchanged with final_length = initial_length, and never indexes outside the
\* tour.
C14_ShortTourUnchanged ==
    Len(input) \in 1..3 =>
        /\ pc # "undefined"
        /\ stats.total_comparisons = 0
        /\ stats.num_swaps = 0
        /\ [k \in 1..Len(tour) |-> tour[k].id] = [k \in 1..Len(input) |-> input[k].id]
        /\ pc = "done" => stats.final_length = stats.initial_length

-----------------------------------------------------------------------------
(* Claims about is_valid_tour (checked under SpecValid) *)

\* How many points of the vector carry the id.
CountId(seq, id) == Cardinality({k \in 1..Len(seq) : seq[k].id = id})

\* C15 as stated: is_valid_tour(tour, originals) returns true exactly when
\* |tour| = |originals| and the multiset of ids in tour equals the multiset of ids
\* in originals, for all inputs, repeated ids in either vector included.
C15_ValidIffSameIdMultiset ==
    fn = "is_valid_tour" =>
        (result <=> /\ Len(tour) = Len(input)
                    /\ \A id \in 0..MaxValidId :
                          CountId(tour, id) = CountId(input, id))

\* C15 amended: is_valid_tour(tour, originals) returns true exactly when
\* |tour| = |originals|, no id occurs twice in tour, and every id of originals
\* occurs in tour.  A tour with a repeated id is rejected even against originals
\* with the same multiset of ids.
C15_ValidIffDistinctAndCovering ==
    fn = "is_valid_tour" =>
        (result <=> /\ Len(tour) = Len(input)
                    /\ \A id \in 0..MaxValidId : CountId(tour, id) <= 1
                    /\ \A id \in 0..MaxValidId :
                          CountId(input, id) > 0 => CountId(tour, id) > 0)

\* A tour with a repeated id checked against originals with the same multiset
\* of ids: the answer is false.
C15_Witness ==
    /\ fn = "is_valid_tour"
    /\ Len(tour) = Len(input)
    /\ \E id \in 0..MaxValidId : CountId(tour, id) > 1
    /\ \A id \in 0..MaxValidId : CountId(tour, id) = CountId(input, id)
    /\ result = FALSE

-----------------------------------------------------------------------------
(* Claims about repeated builds (checked under SpecRebuild; input is the vector
   passed to the most recent build) *)

\* C16: after any sequence of build calls on one tree object, size() is the
\* number of points passed to the most recent build and queries answer over
\* exactly that point set; after a build from an empty vector (also one that
\* follows a build from a non-empty vector) size() = 0, find_neighbors returns
\* an empty list and find_nearest_neighbor returns the default Point.
C16_FollowsLatestBuild ==
    fn # "KDTree" =>
        /\ size_ = Len(input)
        /\ fn = "find_neighbors" =>
              Range(result) =
                  {p \in Range(input) :
                      WithinSq(distance_squared(p, QueryPoint), args.radius)}
        /\ fn = "find_nearest_neighbor" =>
              /\ input = <<>> => result = DefaultPoint
              /\ input # <<>> => result \in Range(input)

-----------------------------------------------------------------------------
(* Claims about determinism (checked under SpecTie) *)

\* What a run of geometric_2opt ends with when every build arranges the points
\* as the tree node: the loop of geometric_2opt from tour t on.
RECURSIVE GeometricRunWith(_, _, _, _, _)
GeometricRunWith(node, t, imp, iterations, num_swaps) ==
    IF ~LoopCondition(imp, iterations)
    THEN [tour |-> t, num_swaps |-> num_swaps, iterations |-> iterations]
    ELSE LET acc == GeometricScan(node, t, 0, NoCandidate)
         IN  IF Accepts(acc.best_gain)
             THEN GeometricRunWith(node, perform_2opt_swap(t, acc.best_i, acc.best_j),
                                   TRUE, iterations + 1, num_swaps + 1)
             ELSE GeometricRunWith(node, t, FALSE, iterations + 1, num_swaps)

\* What a run of basic_2opt from tour t on ends with.
RECURSIVE BasicRun(_, _, _, _)
BasicRun(t, imp, iterations, num_swaps) ==
    IF ~LoopCondition(imp, iterations)
    THEN [tour |-> t, num_swaps |-> num_swaps, iterations |-> iterations]
    ELSE LET acc == BasicScan(t, 0, 2, NoCandidate)
         IN  IF Accepts(acc.best_gain)
             THEN BasicRun(perform_2opt_swap(t, acc.best_i, acc.best_j),
                           TRUE, iterations + 1, num_swaps + 1)
             ELSE BasicRun(t, FALSE, iterations + 1, num_swaps)

\* C17: basic_2opt and geometric_2opt are deterministic: every run on the same
\* input tour ends with the same tour order, num_swaps and iterations; for
\* geometric_2opt whatever tree the median partition builds from the input, and
\* so whatever order find_neighbors returns the points in.
C17_SameOutcomeForEveryRun ==
    pc = "done" =>
        LET ended == [tour |-> tour, num_swaps |-> stats.num_swaps,
                      iterations |-> stats.iterations]
        IN  /\ alg = "basic" => ended = BasicRun(input, TRUE, 0, 0)
            /\ alg = "geometric" =>
                  \A node \in build(Range(input), 0) :
                      ended = GeometricRunWith(node, input, TRUE, 0, 0)

-----------------------------------------------------------------------------
(* Claims about the visit counter (checked under Spec) *)

\* The nodes entered by all the queries of one geometric_2opt pass.
RECURSIVE GeometricEntered(_, _, _)
GeometricEntered(node, t, i) ==
    IF ~(i < Len(t) - 2) THEN 0
    ELSE LET radius == GeometricRadius(t, i)
             first == find_neighbors(node, At(t, i), radius)
             again == IF Len(first.neighbors) < 5
                      THEN find_neighbors(node, At(t, i), radius * 2).visited
                      ELSE 0
         IN  first.visited + again + GeometricEntered(node, t, i + 1)

\* The nodes entered by all the queries of one find_neighbors_adaptive call.
RECURSIVE AdaptiveEntered(_, _, _, _, _)
AdaptiveEntered(node, query, radius, min_neighbors, neighbors) ==
    IF Len(neighbors) < min_neighbors /\ radius < RadiusCap
    THEN LET r == find_neighbors_frnn(node, query, radius)
         IN  r.visited + AdaptiveEntered(node, query, GrowRadius(radius),
                                         min_neighbors, r.neighbors)
    ELSE 0

\* The nodes entered by all the queries of one hybrid_2opt pass.
RECURSIVE HybridEntered(_, _, _, _)
HybridEntered(node, t, active_indices, k) ==
    IF k > Len(active_indices) THEN 0
    ELSE LET i == active_indices[k]
         IN  (IF i < Len(t) - 2
              THEN AdaptiveEntered(node, At(t, i), HybridRadius(t, i), 8, <<>>)
              ELSE 0)
             + HybridEntered(node, t, active_indices, k + 1)

\* C18: the num_visited of geometric_2opt and hybrid_2opt is the total number
\* of k-d tree nodes entered over all neighbor queries of the call: every pass
\* adds the nodes entered by each of its queries, and nothing else changes it.
C18_NumVisitedIsTotalEntered ==
    [][(alg \in {"geometric", "hybrid"}) =>
          (IF pc = "loop" /\ pc' = "loop"
          THEN stats'.num_visited = stats.num_visited
                   + (IF alg = "geometric"
                      THEN GeometricEntered(root, tour, 0)
                      ELSE HybridEntered(root, tour, ActiveIndices(tour, 0), 1))
          ELSE stats'.num_visited = stats.num_visited)]_vars

-----------------------------------------------------------------------------
(* Claims about the pair basic_2opt swaps (checked under SpecTie) *)

\* The eligible pairs of a tour: i + 2 <= j < n, (i, j) # (0, n - 1).
EligiblePairs(t) ==
    {p \in (0..(Len(t) - 1)) \X (0..(Len(t) - 1)) :
        p[1] + 2 <= p[2] /\ ~(p[1] = 0 /\ p[2] = Len(t) - 1)}

\* The eligible pairs whose gain is the maximum over all eligible pairs.
MaxGainPairs(t) ==
    {p \in EligiblePairs(t) :
        \A q \in EligiblePairs(t) :
            calculate_2opt_gain(t, p[1], p[2]) >= calculate_2opt_gain(t, q[1], q[2])}

\* The first pair of a non-empty set in enumeration order: i ascending, then j.
FirstPair(S) ==
    CHOOSE p \in S :
        \A q \in S : p[1] < q[1] \/ (p[1] = q[1] /\ p[2] <= q[2])

\* C19: every pass of basic_2opt applies at most one swap, and when it applies
\* one it is at a pair whose gain is the maximum over all eligible pairs of the
\* tour at the start of the pass, the first such pair in enumeration order
\* (i ascending, then j ascending).
C19_BasicSwapsFirstBestPair ==
    [][(alg = "basic" /\ pc = "loop" /\ stats'.iterations = stats.iterations + 1) =>
          IF stats'.num_swaps = stats.num_swaps
          THEN tour' = tour
          ELSE /\ stats'.num_swaps = stats.num_swaps + 1
               /\ MaxGainPairs(tour) # {}
               /\ LET p == FirstPair(MaxGainPairs(tour))
                  IN  tour' = perform_2opt_swap(tour, p[1], p[2])]_vars

\* The first pass of basic_2opt has swapped on an input with two eligible pairs
\* of equal maximum gain, and the tour is the swap at the first of them, which
\* is not what the swap at the other gives.
C19_Witness ==
    /\ alg = "basic"
    /\ stats.iterations = 1
    /\ stats.num_swaps = 1
    /\ Cardinality(MaxGainPairs(input)) >= 2
    /\ LET p == FirstPair(MaxGainPairs(input))
       IN  /\ tour = perform_2opt_swap(input, p[1], p[2])
           /\ \E q \in MaxGainPairs(input) :
                 tour # perform_2opt_swap(input, q[1], q[2])

-----------------------------------------------------------------------------
(* Claims about passes without a swap (checked under SpecWide) *)

\* C20: in approximate_2opt and hybrid_2opt, when a pass applies no swap while
\* the iteration cap is not reached and some positions are inactive, a further
\* pass is run over the enlarged active set: the loop goes on after that pass,
\* the optimizer does not return directly after its first pass without a swap.
C20_NoSwapPassIsFollowedByAnother ==
    [][(/\ alg \in {"approximate", "hybrid"}
        /\ pc = "loop"
        /\ stats'.iterations = stats.iterations + 1
        /\ stats'.num_swaps = stats.num_swaps
        /\ stats'.iterations < max_iterations
        /\ \E k \in 1..Len(tour) : ~tour[k].active) =>
          LoopCondition(improved', stats'.iterations)]_vars


-----------------------------------------------------------------------------
(* Claims about the activation bits of approximate_2opt (checked under SpecWide) *)

\* The positions of a tour whose point is active.
ActivePositions(t) == {k \in 0..(Len(t) - 1) : At(t, k).active}

\* The eligible pairs with both positions active.
ActivePairs(t) ==
    {p \in EligiblePairs(t) :
        p[1] \in ActivePositions(t) /\ p[2] \in ActivePositions(t)}

\* The active pairs whose gain is the maximum over all active pairs.
BestActivePairs(t) ==
    {p \in ActivePairs(t) :
        \A q \in ActivePairs(t) :
            calculate_2opt_gain(t, p[1], p[2]) >= calculate_2opt_gain(t, q[1], q[2])}

\* The ids of a tour in order.
IdsOf(t) == [k \in 1..Len(t) |-> t[k].id]

\* C21: in approximate_2opt on n >= 4 points, a pass evaluates the gain exactly
\* for the eligible pairs whose two positions are active at the start of the
\* pass, and after a pass that swaps at (best_i, best_j) the active positions
\* are exactly (best_i + k) mod n and (best_j + k) mod n for k in -2..2, at most
\* ten of them; every other position is inactive.
C21_ActiveSetAfterSwap ==
    [][(/\ alg = "approximate"
        /\ pc = "loop"
        /\ Len(tour) >= 4
        /\ stats'.iterations = stats.iterations + 1) =>
          (/\ stats'.total_comparisons
                 = stats.total_comparisons + Cardinality(ActivePairs(tour))
           /\ (stats'.num_swaps # stats.num_swaps) =>
                 (/\ BestActivePairs(tour) # {}
                  /\ LET n == Len(tour)
                         p == FirstPair(BestActivePairs(tour))
                         marked == {(p[1] + k) % n : k \in (-2)..2}
                                       \cup {(p[2] + k) % n : k \in (-2)..2}
                     IN  /\ IdsOf(tour') = IdsOf(perform_2opt_swap(tour, p[1], p[2]))
                         /\ ActivePositions(tour') = marked
                         /\ Cardinality(ActivePositions(tour')) <= 10))]_vars

\* The first pass has swapped at a pair with best_i < 2, so that best_i - 2
\* goes round the end of the tour; the marked positions are the active ones and
\* some position is left inactive.
C21_Witness ==
    /\ alg = "approximate"
    /\ pc = "loop"
    /\ stats.iterations = 1
    /\ stats.num_swaps = 1
    /\ LET n == Len(tour)
           p == FirstPair(BestActivePairs(AllActive(input)))
       IN  /\ p[1] < 2
           /\ (p[1] + n - 2) % n \in ActivePositions(tour)
           /\ ActivePositions(tour) # 0..(n - 1)
           /\ Cardinality(ActivePositions(tour)) <= 10


-----------------------------------------------------------------------------
(* Claims about the shape of the built tree (checked under SpecRebuild) *)

\* The points held by the nodes of a tree, and how many nodes it has.
RECURSIVE PointsOf(_)
PointsOf(node) ==
    IF node = <<>> THEN {}
    ELSE {node[1].point} \cup PointsOf(node[1].left) \cup PointsOf(node[1].right)

RECURSIVE NodeCount(_)
NodeCount(node) ==
    IF node = <<>> THEN 0
    ELSE 1 + NodeCount(node[1].left) + NodeCount(node[1].right)

\* Every node of the subtree, met at depth d, records depth d, has nothing
\* greater on its left and nothing smaller on its right in x (d even) or in y
\* (d odd), and parts its m points floor(m/2) to the left, the rest to the right.
RECURSIVE MedianSplit(_, _)
MedianSplit(node, d) ==
    \/ node = <<>>
    \/ LET p == node[1].point
           l == node[1].left
           r == node[1].right
           m == NodeCount(node)
       IN  /\ node[1].depth = d
           /\ \A a \in PointsOf(l) : IF d % 2 = 0 THEN a.x <= p.x ELSE a.y <= p.y
           /\ \A b \in PointsOf(r) : IF d % 2 = 0 THEN b.x >= p.x ELSE b.y >= p.y
           /\ NodeCount(l) = m \div 2
           /\ NodeCount(r) = m - 1 - (m \div 2)
           /\ MedianSplit(l, d + 1)
           /\ MedianSplit(r, d + 1)

\* C22: after build(points) on n points the tree has exactly n nodes holding
\* each input point once; every node at depth d splits on x when d is even and
\* on y when d is odd, with nothing greater on its left and nothing smaller on
\* its right; a subtree over m points has floor(m/2) points on the left and
\* m - 1 - floor(m/2) on the right.
C22_BuiltTreeIsMedianSplit ==
    (fn # "KDTree") =>
        /\ NodeCount(root) = Len(input)
        /\ PointsOf(root) = Range(input)
        /\ MedianSplit(root, 0)

\* The same, for the builds that reach the private build: the first build of a
\* tree object and every build from a vector that is not empty.
C22_NonEmptyBuildIsMedianSplit ==
    (fn # "KDTree" /\ (input # <<>> \/ root = <<>>)) => C22_BuiltTreeIsMedianSplit

\* A tree with a node at depth 1 that has a child: a split on y that parts points.
C22_SplitOnYReached ==
    /\ fn = "build"
    /\ root # <<>>
    /\ \E c \in {root[1].left, root[1].right} :
          c # <<>> /\ (c[1].left # <<>> \/ c[1].right # <<>>)


-----------------------------------------------------------------------------
(* Claims about the random draws of approximate_2opt (checked under SpecWide) *)

\* What a call of approximate_2opt returns, apart from the activation bits.
Outcome(t, iterations, num_swaps) ==
    [ids |-> IdsOf(t), num_swaps |-> num_swaps, iterations |-> iterations,
     final_length |-> tour_length(t)]

\* The run of approximate_2opt in which every random draw gives position 0.
RECURSIVE ApproximateRun(_, _, _, _)
ApproximateRun(t, imp, iterations, num_swaps) ==
    IF ~LoopCondition(imp, iterations) THEN Outcome(t, iterations, num_swaps)
    ELSE LET n == Len(t)
             active_indices == ActiveIndices(t, 0)
             acc == ApproximateScan(t, active_indices, 1, 2, NoCandidate)
             draws == Min(n, Len(active_indices) + 10) - Len(active_indices)
         IN  IF Accepts(acc.best_gain)
             THEN ApproximateRun(
                      SetActive(perform_2opt_swap(t, acc.best_i, acc.best_j),
                                Around(n, acc.best_i, acc.best_j, 2)),
                      TRUE, iterations + 1, num_swaps + 1)
             ELSE ApproximateRun(
                      IF draws > 0
                      THEN SetActive(t, Range(active_indices) \cup {0})
                      ELSE t,
                      FALSE, iterations + 1, num_swaps)

\* C23: the tour order, num_swaps, iterations and final_length that
\* approximate_2opt returns are the same for every outcome of its random draws:
\* every run ends as the run on the same input whose draws all give position 0
\* does, and may differ from it only in the activation bits.
\* (A run longer than MaxRunPasses is not recomputed: every pass of it has
\* swapped, so it has drawn nothing and is the only run on its input.)
C23_OutcomeIndependentOfDraws ==
    (alg = "approximate" /\ pc = "done") =>
        IF stats.iterations <= MaxRunPasses
        THEN /\ Outcome(tour, stats.iterations, stats.num_swaps)
                    = ApproximateRun(AllActive(input), TRUE, 0, 0)
             /\ stats.final_length = tour_length(tour)
        ELSE stats.num_swaps = stats.iterations

\* A run has returned after a pass that drew positions at random: a position
\* other than 0 that the last swap left inactive is active now.
C23_Witness ==
    /\ alg = "approximate"
    /\ pc = "done"
    /\ stats.iterations = 2
    /\ stats.num_swaps = 1
    /\ LET n == Len(input)
           p == FirstPair(BestActivePairs(AllActive(input)))
       IN  \E k \in 1..(n - 1) :
              /\ k \notin Around(n, p[1], p[2], 2)
              /\ k \in ActivePositions(tour)


-----------------------------------------------------------------------------
(* Claims about the pairs basic_2opt evaluates (checked under Spec) *)

\* The pairs for which a pass of basic_2opt calls the gain function, in the
\* order of the two loops.
RECURSIVE BasicEvaluated(_, _, _)
BasicEvaluated(n, i, j) ==
    IF ~BelowSizeMinus2(i, n) \/ i >= n THEN <<>>
    ELSE IF ~(j < n) THEN BasicEvaluated(n, i + 1, i + 3)
    ELSE IF j = n - 1 /\ i = 0 THEN BasicEvaluated(n, i, j + 1)
    ELSE <<(<<i, j>>)>> \o BasicEvaluated(n, i, j + 1)

\* C24: basic_2opt on a tour of n >= 4 points calls the gain function exactly
\* once for each of the n(n-3)/2 eligible pairs in every pass, so that
\* total_comparisons = iterations * n(n-3)/2 at return (and after every pass);
\* the pair (0, n-1) and the adjacent pairs are never evaluated.
\* (The enumeration of the two loops depends on n alone and is also compared
\* for every n up to MaxScanN.)
C24_BasicEvaluatesEachEligiblePairOnce ==
    (alg = "basic" /\ Len(tour) >= 4) =>
        /\ stats.total_comparisons * 2 = stats.iterations * Len(tour) * (Len(tour) - 3)
        /\ Range(BasicEvaluated(Len(tour), 0, 2)) = EligiblePairs(tour)
        /\ \A n \in 4..MaxScanN :
              LET evaluated == BasicEvaluated(n, 0, 2)
              IN  /\ Len(evaluated) * 2 = n * (n - 3)
                  /\ Range(evaluated)
                        = {p \in (0..(n - 1)) \X (0..(n - 1)) : EligiblePair(n, p[1], p[2])}
                  /\ \A a, b \in 1..Len(evaluated) :
                        a # b => evaluated[a] # evaluated[b]
                  /\ \A a \in 1..Len(evaluated) :
                        /\ evaluated[a] # <<0, n - 1>>
                        /\ evaluated[a][2] # evaluated[a][1] + 1
                        /\ evaluated[a][2] # evaluated[a][1]

\* A call of basic_2opt on five points has returned after several passes.
C24_Witness ==
    /\ alg = "basic"
    /\ pc = "done"
    /\ Len(tour) = 5
    /\ stats.iterations >= 2
    /\ stats.total_comparisons = stats.iterations * 5

=============================================================================
